---------------------------- MODULE Spec2Model ----------------------------
(***************************************************************************)
(* E-Sports Tournament Hub: the registration / approval / archival rules   *)
(* of website/views.py and the hourly sweep of website/archive_expired.py, *)
(* as a state machine over the relational tables.  One action per request  *)
(* handler; every handler runs as one atomic step (one request at a time). *)
(***************************************************************************)
EXTENDS Integers, Naturals, Sequences, FiniteSets, TLC

(* ------------------------------ bounds -------------------------------- *)
\* The clock runs over 0..MaxTime; tournament dates are drawn from it.
MaxTime == 1
\* Rows ever inserted into the tournament / team / registration tables.
MaxTournaments == 2
MaxTeams == 2
MaxRegs == 2
\* Rows the audit table holds before the audited requests stop being issued.
MaxAudit == 2
\* Team.points and Team.wins an admin enters run over 0..MaxPoints.
MaxPoints == 1
\* Registration requests that can be between their checks and their insert.
MaxInflight == 2

(* --------------------------- input domains ---------------------------- *)
Captains == {"u1"}
Admins == {"admin"}
Users == Captains \cup Admins
Games == {"VALORANT", "CS2"}
Locations == {"point-a", "point-b"}
TeamNames == {"Alpha", "Beta"}
TournamentNames == {"Cup"}
Dates == 0..MaxTime
TournamentIds == 1..MaxTournaments
TeamIds == 1..MaxTeams
RegIds == 1..MaxRegs
None == "None"
Points == 0..MaxPoints
RequestIds == 1..MaxInflight
\* ?category= of the home page: the default, a game, a tournament name
Categories == {"VALORANT", "CS2", "Cup"}

VARIABLES
    now,            \* func.now() / datetime.now(): the database clock
    tournaments,    \* table tournament: set of rows
    teams,          \* table team: set of rows
    players,        \* table player: set of rows
    registrations,  \* table tournament_registration: set of rows
    audit,          \* table audit_log, in insertion order
    autoinc,        \* AUTO_INCREMENT counters of the team/registration/player tables
    inflight,       \* registration requests past their checks, before their insert
    out             \* the last request and the message it flashed (or the sweep printed)

vars == <<now, tournaments, teams, players, registrations, audit, autoinc, inflight, out>>
db == <<tournaments, teams, players, registrations, audit, autoinc>>

(* ------------------------------ helpers ------------------------------- *)
\* Tournament.hide: the column every query filters with "hide == False" and the
\* sweep sets to True; a new tournament is not hidden.
HideDefault == FALSE

\* IsAdmin taking every logged-in user for an admin
IsAdmin_Everyone(u) == TRUE

\* User.is_admin
IsAdmin(u) == u \in Admins

\* Query.get(id) on each table (the row set is empty or a singleton)
TournamentById(id) == {g \in tournaments : g.id = id}
TeamById(id) == {t \in teams : t.id = id}
RegById(id) == {r \in registrations : r.id = id}

\* Team.name.ilike(name): case-insensitive equality of the names
Lower(s) ==
    CASE s = "Alpha" -> "alpha"
      [] s = "ALPHA" -> "alpha"
      [] s = "alpha" -> "alpha"
      [] s = "Beta" -> "beta"
      [] s = "BETA" -> "beta"
      [] s = "VALORANT" -> "valorant"
      [] s = "CS2" -> "cs2"
      [] s = "Cup" -> "cup"
      [] s = "CS2 Open" -> "cs2 open"
      [] OTHER -> s

\* ILike comparing the names as they are written
ILike_CaseSensitive(a, b) == a = b

ILike(a, b) == Lower(a) = Lower(b)

\* column.ilike('%' + category + '%'): category occurs in the column, whatever
\* the case.  Parts(s) lists the names of the model that occur in s.
Parts(s) ==
    CASE s = "cs2 open" -> {"cs2 open", "cs2"}
      [] OTHER -> {s}
Like(column, category) == Lower(category) \in Parts(Lower(column))

\* .order_by(Tournament.date.desc()).first(): the rows of S with the latest
\* date; among equal dates the row with the lowest primary key is returned.
LatestByDate(S) ==
    {g \in S : \A h \in S : h.date < g.date \/ (h.date = g.date /\ h.id >= g.id)}

\* Team.query.filter_by(captain_id=u).first(): the captain's first team (by id)
FirstTeamOf(u) ==
    {t \in teams : t.captain_id = u /\ \A s \in teams : s.captain_id = u => s.id >= t.id}

\* The spec's "open tournament": not archived, not hidden, date in the future
\* (Tournament.date >= func.now())
IsOpen(g) == ~g.archived /\ ~g.hide /\ g.date >= now

\* What the last request left for its user: the handler that ran and the
\* message it flashed (or the status it aborted with).
Out(op, msg) == [op |-> op, msg |-> msg]

\* ActiveApproved with the date test written "date > now"
ActiveApproved_StrictDate(team_id) ==
    \E r \in registrations : \E g \in tournaments :
        /\ r.team_id = team_id
        /\ r.status = "approved"
        /\ g.id = r.tournament_id
        /\ ~g.archived
        /\ ~g.hide
        /\ g.date > now

\* ActiveApproved that also counts a registration an archive has closed
ActiveApproved_CountsArchived(team_id) ==
    \E r \in registrations :
        /\ r.team_id = team_id
        /\ r.status \in {"approved", "archived"}

\* active_approved_reg: the team has an approved registration on a tournament
\* that is not archived, not hidden and dated now or later
ActiveApproved(team_id) ==
    \E r \in registrations : \E g \in tournaments :
        /\ r.team_id = team_id
        /\ r.status = "approved"
        /\ g.id = r.tournament_id
        /\ ~g.archived
        /\ ~g.hide
        /\ g.date >= now

\* existing_reg: the rows for the (tournament, team) pair, in any status
ExistingReg(tournament_id, team_id) ==
    {r \in registrations : r.tournament_id = tournament_id /\ r.team_id = team_id}

\* NewRegistration with the status column defaulting to 'approved'
NewRegistration_Approved(tournament_id, team_id) ==
    [id |-> autoinc.registration, tournament_id |-> tournament_id,
     team_id |-> team_id, status |-> "approved"]

\* TournamentRegistration(): status defaults to 'pending'
NewRegistration(tournament_id, team_id) ==
    [id |-> autoinc.registration, tournament_id |-> tournament_id,
     team_id |-> team_id, status |-> "pending"]

\* Tournament(): archived defaults to False
NewTournament(name, game_name, location, date) ==
    [id |-> Cardinality(tournaments) + 1, name |-> name, game_name |-> game_name,
     location |-> location, date |-> date, archived |-> FALSE, hide |-> HideDefault]

\* Team(): points and wins default to 0, rank to NULL (written 0: ranks start at 1)
NewTeam(name, game_name, captain_id) ==
    [id |-> autoinc.team, name |-> name, game_name |-> game_name,
     captain_id |-> captain_id, points |-> 0, wins |-> 0, rank |-> 0]

\* AuditLog(user_id, action, target_type, target_id, details)
AuditEntry(user_id, action, target_type, target_id, details) ==
    [user_id |-> user_id, action |-> action, target_type |-> target_type,
     target_id |-> target_id, details |-> details]

(* ------------------------------- Init --------------------------------- *)
Init ==
    /\ now = 0
    /\ tournaments = {}
    /\ teams = {}
    /\ players = {}
    /\ registrations = {}
    /\ audit = <<>>
    /\ autoinc = [team |-> 1, registration |-> 1, player |-> 1]
    /\ inflight = {}
    /\ out = Out("start", "none")

\* Time passes between requests.
Tick ==
    /\ now < MaxTime
    /\ now' = now + 1
    /\ UNCHANGED <<db, inflight, out>>

(* --------------------- registration (views.py) ------------------------ *)
Result(msg, team_id, tournament_id) ==
    [msg |-> msg, team_id |-> team_id, tournament_id |-> tournament_id]

\* tournament_register: the tournament the venue resolves to
RegisterTournament(location) ==
    LatestByDate({g \in tournaments : g.location = location /\ ~g.archived /\ ~g.hide})

\* RegisterOutcome with the approved-elsewhere check moved before the game check
RegisterOutcome_ApprovedFirst(u, location) ==
    IF IsAdmin(u) THEN Result("AdminNotAllowed", 0, 0)
    ELSE IF FirstTeamOf(u) = {} THEN Result("NoTeam", 0, 0)
    ELSE LET team == CHOOSE t \in FirstTeamOf(u) : TRUE IN
      IF RegisterTournament(location) = {} THEN Result("NotFound", team.id, 0)
      ELSE LET tournament == CHOOSE g \in RegisterTournament(location) : TRUE IN
        IF ActiveApproved(team.id)
          THEN Result("AlreadyApprovedElsewhere", team.id, tournament.id)
        ELSE IF team.game_name # tournament.game_name
          THEN Result("GameMismatch", team.id, tournament.id)
        ELSE IF ExistingReg(tournament.id, team.id) # {}
          THEN Result("DuplicateRegistration", team.id, tournament.id)
        ELSE Result("Registered", team.id, tournament.id)

\* RegisterOutcome with the existing_reg check left out
RegisterOutcome_NoDuplicateCheck(u, location) ==
    IF IsAdmin(u) THEN Result("AdminNotAllowed", 0, 0)
    ELSE IF FirstTeamOf(u) = {} THEN Result("NoTeam", 0, 0)
    ELSE LET team == CHOOSE t \in FirstTeamOf(u) : TRUE IN
      IF RegisterTournament(location) = {} THEN Result("NotFound", team.id, 0)
      ELSE LET tournament == CHOOSE g \in RegisterTournament(location) : TRUE IN
        IF team.game_name # tournament.game_name
          THEN Result("GameMismatch", team.id, tournament.id)
        ELSE IF ActiveApproved(team.id)
          THEN Result("AlreadyApprovedElsewhere", team.id, tournament.id)
        ELSE Result("Registered", team.id, tournament.id)

\* RegisterOutcome with the existing_reg check moved before the game check
RegisterOutcome_DuplicateFirst(u, location) ==
    IF IsAdmin(u) THEN Result("AdminNotAllowed", 0, 0)
    ELSE IF FirstTeamOf(u) = {} THEN Result("NoTeam", 0, 0)
    ELSE LET team == CHOOSE t \in FirstTeamOf(u) : TRUE IN
      IF RegisterTournament(location) = {} THEN Result("NotFound", team.id, 0)
      ELSE LET tournament == CHOOSE g \in RegisterTournament(location) : TRUE IN
        IF ExistingReg(tournament.id, team.id) # {}
          THEN Result("DuplicateRegistration", team.id, tournament.id)
        ELSE IF team.game_name # tournament.game_name
          THEN Result("GameMismatch", team.id, tournament.id)
        ELSE IF ActiveApproved(team.id)
          THEN Result("AlreadyApprovedElsewhere", team.id, tournament.id)
        ELSE Result("Registered", team.id, tournament.id)

\* tournament_register: the checks, in the order of the code, and their result
RegisterOutcome(u, location) ==
    IF IsAdmin(u) THEN Result("AdminNotAllowed", 0, 0)
    ELSE IF FirstTeamOf(u) = {} THEN Result("NoTeam", 0, 0)
    ELSE LET team == CHOOSE t \in FirstTeamOf(u) : TRUE IN
      IF RegisterTournament(location) = {} THEN Result("NotFound", team.id, 0)
      ELSE LET tournament == CHOOSE g \in RegisterTournament(location) : TRUE IN
        IF team.game_name # tournament.game_name
          THEN Result("GameMismatch", team.id, tournament.id)
        ELSE IF ActiveApproved(team.id)
          THEN Result("AlreadyApprovedElsewhere", team.id, tournament.id)
        ELSE IF ExistingReg(tournament.id, team.id) # {}
          THEN Result("DuplicateRegistration", team.id, tournament.id)
        ELSE Result("Registered", team.id, tournament.id)

\* POST /tournament-register/<location>
tournament_register(u, location) ==
    LET o == RegisterOutcome(u, location) IN
    /\ o.msg = "Registered" => autoinc.registration <= MaxRegs
    /\ IF o.msg = "Registered"
         THEN /\ registrations' =
                   registrations \cup {NewRegistration(o.tournament_id, o.team_id)}
              /\ autoinc' = [autoinc EXCEPT !.registration = @ + 1]
         ELSE UNCHANGED <<registrations, autoinc>>
    /\ out' = Out("tournament_register", o.msg)
    /\ UNCHANGED <<now, inflight, tournaments, teams, players, audit>>

\* tournament_join: the tournament the venue resolves to
JoinTournament(location) ==
    LatestByDate({g \in tournaments : g.location = location /\ ~g.archived})

\* JoinOutcome with the existing_reg check left out
JoinOutcome_NoDuplicateCheck(u, location, team_id) ==
    IF IsAdmin(u) THEN Result("AdminNotAllowed", 0, 0)
    ELSE IF JoinTournament(location) = {} THEN Result("NotFound", 0, 0)
    ELSE LET tournament == CHOOSE g \in JoinTournament(location) : TRUE
             owned == {t \in TeamById(team_id) : t.captain_id = u} IN
      IF owned = {} THEN Result("InvalidTeam", 0, tournament.id)
      ELSE LET team == CHOOSE t \in owned : TRUE IN
        IF team.game_name # tournament.game_name
          THEN Result("GameMismatch", team.id, tournament.id)
        ELSE IF ActiveApproved(team.id)
          THEN Result("AlreadyApprovedElsewhere", team.id, tournament.id)
        ELSE Result("Registered", team.id, tournament.id)

\* tournament_join (POST): the checks, in the order of the code, and their result
JoinOutcome(u, location, team_id) ==
    IF IsAdmin(u) THEN Result("AdminNotAllowed", 0, 0)
    ELSE IF JoinTournament(location) = {} THEN Result("NotFound", 0, 0)
    ELSE LET tournament == CHOOSE g \in JoinTournament(location) : TRUE
             owned == {t \in TeamById(team_id) : t.captain_id = u} IN
      IF owned = {} THEN Result("InvalidTeam", 0, tournament.id)
      ELSE LET team == CHOOSE t \in owned : TRUE IN
        IF team.game_name # tournament.game_name
          THEN Result("GameMismatch", team.id, tournament.id)
        ELSE IF ActiveApproved(team.id)
          THEN Result("AlreadyApprovedElsewhere", team.id, tournament.id)
        ELSE IF ExistingReg(tournament.id, team.id) # {}
          THEN Result("DuplicateRegistration", team.id, tournament.id)
        ELSE Result("Registered", team.id, tournament.id)

\* POST /tournament-join/<location> with form field team_id
tournament_join(u, location, team_id) ==
    LET o == JoinOutcome(u, location, team_id) IN
    /\ o.msg = "Registered" => autoinc.registration <= MaxRegs
    /\ IF o.msg = "Registered"
         THEN /\ registrations' =
                   registrations \cup {NewRegistration(o.tournament_id, o.team_id)}
              /\ autoinc' = [autoinc EXCEPT !.registration = @ + 1]
         ELSE UNCHANGED <<registrations, autoinc>>
    /\ out' = Out("tournament_join", o.msg)
    /\ UNCHANGED <<now, inflight, tournaments, teams, players, audit>>

\* InsertRegistration refused by a unique key on (team_id, tournament_id)
InsertRegistration_Unique(regs, row) ==
    IF \E r \in regs : r.team_id = row.team_id /\ r.tournament_id = row.tournament_id
      THEN regs
      ELSE regs \cup {row}

\* db.session.add(registration); db.session.commit(): the table has a primary
\* key and no other unique key, the row is added whatever rows there are
InsertRegistration(regs, row) == regs \cup {row}

\* tournament_register of request p up to its insert: the checks are run on the
\* committed rows; a request that passes them is left in flight.
register_check(p, u, location) ==
    LET o == RegisterOutcome(u, location) IN
    /\ \A q \in inflight : q.req # p
    /\ IF o.msg = "Registered"
         THEN /\ inflight' = inflight \cup {[req |-> p, team_id |-> o.team_id,
                                              tournament_id |-> o.tournament_id]}
              /\ out' = out
         ELSE /\ inflight' = inflight
              /\ out' = Out("tournament_register", o.msg)
    /\ UNCHANGED <<now, tournaments, teams, players, registrations, audit, autoinc>>

\* tournament_register of request p from its insert on: the row is added and
\* committed, the success is flashed.
register_insert(p) ==
    /\ autoinc.registration <= MaxRegs
    /\ \E q \in inflight :
         /\ q.req = p
         /\ registrations' = InsertRegistration(registrations,
                                  NewRegistration(q.tournament_id, q.team_id))
         /\ inflight' = inflight \ {q}
    /\ autoinc' = [autoinc EXCEPT !.registration = @ + 1]
    /\ out' = Out("tournament_register", "Registered")
    /\ UNCHANGED <<now, tournaments, teams, players, audit>>

(* ------------------------- teams (views.py) --------------------------- *)
\* team_create: Team.query.filter(Team.name.ilike(team_name)).first()
ExistingTeam(name) ==
    LET S == {t \in teams : ILike(t.name, name)} IN
    {t \in S : \A s \in S : s.id >= t.id}

\* CreateTournament without the archived filter
CreateTournament_AnyArchived(location) ==
    LatestByDate({g \in tournaments : g.location = location})

\* team_create: the tournament the optional tournament_location resolves to
CreateTournament(location) ==
    LatestByDate({g \in tournaments : g.location = location /\ ~g.archived})

\* team_create (POST): what the request ends with
CreateOutcome(u, name, game_name, location, playersOk) ==
    IF IsAdmin(u) THEN Result("AdminNotAllowed", 0, 0)
    ELSE IF game_name = "" THEN Result("GameRequired", 0, 0)
    ELSE IF ExistingTeam(name) # {} THEN
      LET existing_team == CHOOSE t \in ExistingTeam(name) : TRUE IN
      IF existing_team.captain_id = u
        THEN Result("TeamExistsOwn", existing_team.id, 0)
        ELSE Result("TeamNameTaken", 0, 0)
    ELSE IF ~playersOk THEN Result("PlayerNameRequired", autoinc.team, 0)
    ELSE IF location = None THEN Result("TeamCreated", autoinc.team, 0)
    ELSE IF \E g \in CreateTournament(location) : g.game_name = game_name
      THEN Result("TeamCreatedAndRegistered", autoinc.team,
                  (CHOOSE g \in CreateTournament(location) : TRUE).id)
      ELSE Result("TeamCreatedRegistrationFailed", autoinc.team, 0)

\* POST /team/create.  The team row is committed before the player names are
\* read: a missing player name ends the request with the team created, no
\* player and no registration.  max_players players are added otherwise.
team_create(u, name, game_name, location, playersOk, max_players) ==
    LET o == CreateOutcome(u, name, game_name, location, playersOk)
        created == o.msg \in {"PlayerNameRequired", "TeamCreated",
                              "TeamCreatedAndRegistered", "TeamCreatedRegistrationFailed"}
        withPlayers == created /\ o.msg # "PlayerNameRequired"
        registered == o.msg = "TeamCreatedAndRegistered" IN
    /\ created => autoinc.team <= MaxTeams
    /\ registered => autoinc.registration <= MaxRegs
    /\ teams' = IF created THEN teams \cup {NewTeam(name, game_name, u)} ELSE teams
    /\ players' = IF withPlayers
                    THEN players \cup {[id |-> autoinc.player + i, team_id |-> autoinc.team] :
                                          i \in 0..(max_players - 1)}
                    ELSE players
    /\ registrations' = IF registered
                          THEN registrations \cup {NewRegistration(o.tournament_id, autoinc.team)}
                          ELSE registrations
    /\ autoinc' = [team |-> IF created THEN autoinc.team + 1 ELSE autoinc.team,
                   player |-> IF withPlayers THEN autoinc.player + max_players
                                             ELSE autoinc.player,
                   registration |-> IF registered THEN autoinc.registration + 1
                                                  ELSE autoinc.registration]
    /\ out' = Out("team_create", o.msg)
    /\ UNCHANGED <<now, inflight, tournaments, audit>>

\* POST /team/<team_id>/edit
team_edit(u, team_id, name, game_name) ==
    LET msg == IF TeamById(team_id) = {} THEN "NotFound404"
               ELSE IF (CHOOSE t \in TeamById(team_id) : TRUE).captain_id # u THEN "Forbidden"
               ELSE IF game_name = "" THEN "GameRequired"
               ELSE IF \E t \in teams : ILike(t.name, name) /\ t.id # team_id
                 THEN "TeamNameTaken"
               ELSE "TeamUpdated" IN
    /\ teams' = IF msg = "TeamUpdated"
                  THEN {IF t.id = team_id
                          THEN [t EXCEPT !.name = name, !.game_name = game_name]
                          ELSE t : t \in teams}
                  ELSE teams
    /\ out' = Out("team_edit", msg)
    /\ UNCHANGED <<now, inflight, tournaments, players, registrations, audit, autoinc>>

\* team_delete removing the team row only
team_delete_NoCascade(u, team_id) ==
    LET msg == IF TeamById(team_id) = {} THEN "NotFound404"
               ELSE IF (CHOOSE t \in TeamById(team_id) : TRUE).captain_id # u THEN "Forbidden"
               ELSE "TeamDeleted" IN
    /\ teams' = IF msg = "TeamDeleted" THEN {t \in teams : t.id # team_id} ELSE teams
    /\ out' = Out("team_delete", msg)
    /\ UNCHANGED <<now, inflight, tournaments, players, registrations, audit, autoinc>>

\* POST /team/<team_id>/delete: the players and the registrations of the team
\* go with it (cascade="all, delete-orphan")
team_delete(u, team_id) ==
    LET msg == IF TeamById(team_id) = {} THEN "NotFound404"
               ELSE IF (CHOOSE t \in TeamById(team_id) : TRUE).captain_id # u THEN "Forbidden"
               ELSE "TeamDeleted" IN
    /\ IF msg = "TeamDeleted"
         THEN /\ teams' = {t \in teams : t.id # team_id}
              /\ players' = {p \in players : p.team_id # team_id}
              /\ registrations' = {r \in registrations : r.team_id # team_id}
         ELSE UNCHANGED <<teams, players, registrations>>
    /\ out' = Out("team_delete", msg)
    /\ UNCHANGED <<now, inflight, tournaments, audit, autoinc>>

(* ---------------------- tournaments (views.py) ------------------------ *)
\* POST /tournament/create (the form's date parses, max_players is a number)
tournament_create(u, name, game_name, location, date) ==
    LET msg == IF ~IsAdmin(u) THEN "Forbidden"
               ELSE IF date < now THEN "FutureDateRequired"
               ELSE "TournamentCreated" IN
    /\ msg = "TournamentCreated" => Cardinality(tournaments) < MaxTournaments
    /\ tournaments' = IF msg = "TournamentCreated"
                        THEN tournaments \cup {NewTournament(name, game_name, location, date)}
                        ELSE tournaments
    /\ out' = Out("tournament_create", msg)
    /\ UNCHANGED <<now, inflight, teams, players, registrations, audit, autoinc>>

\* POST /tournament/<tournament_id>/edit (the form's date parses, max_players is a number)
tournament_edit(u, tournament_id, name, game_name, location, date) ==
    LET msg == IF ~IsAdmin(u) THEN "Forbidden"
               ELSE IF TournamentById(tournament_id) = {} THEN "NotFound404"
               ELSE IF date < now THEN "FutureDateRequired"
               ELSE "TournamentUpdated" IN
    /\ tournaments' = IF msg = "TournamentUpdated"
                        THEN {IF g.id = tournament_id
                                THEN [g EXCEPT !.name = name, !.game_name = game_name,
                                               !.location = location, !.date = date]
                                ELSE g : g \in tournaments}
                        ELSE tournaments
    /\ out' = Out("tournament_edit", msg)
    /\ UNCHANGED <<now, inflight, teams, players, registrations, audit, autoinc>>

\* ArchiveRegistrations moving every registration of the tournaments, whatever
\* its status, to 'archived'
ArchiveRegistrations_AnyStatus(regs, ids) ==
    {IF r.tournament_id \in ids THEN [r EXCEPT !.status = "archived"] ELSE r : r \in regs}

\* The status cascade shared by the manual archive and the sweep: every
\* 'approved' registration of the tournaments in ids becomes 'archived'.
ArchiveRegistrations(regs, ids) ==
    {IF r.tournament_id \in ids /\ r.status = "approved"
       THEN [r EXCEPT !.status = "archived"]
       ELSE r : r \in regs}

\* ArchiveTournament toggling the flag instead of setting it
ArchiveTournament_Toggle(ts, tournament_id) ==
    {IF g.id = tournament_id THEN [g EXCEPT !.archived = ~g.archived] ELSE g : g \in ts}

\* tournament_archive: tournament.archived = True
ArchiveTournament(ts, tournament_id) ==
    {IF g.id = tournament_id THEN [g EXCEPT !.archived = TRUE] ELSE g : g \in ts}

\* POST /tournament/<tournament_id>/archive
tournament_archive(u, tournament_id) ==
    LET msg == IF ~IsAdmin(u) THEN "Forbidden"
               ELSE IF TournamentById(tournament_id) = {} THEN "NotFound404"
               ELSE "TournamentArchived" IN
    /\ IF msg = "TournamentArchived"
         THEN LET tournament == CHOOSE g \in TournamentById(tournament_id) : TRUE IN
              /\ registrations' = ArchiveRegistrations(registrations, {tournament_id})
              /\ tournaments' = ArchiveTournament(tournaments, tournament_id)
              /\ audit' = Append(audit,
                     AuditEntry(u, "archive_tournament", "tournament", tournament_id,
                                [tournament_name |-> tournament.name,
                                 location |-> tournament.location]))
         ELSE UNCHANGED <<registrations, tournaments, audit>>
    /\ out' = Out("tournament_archive", msg)
    /\ UNCHANGED <<now, inflight, teams, players, autoinc>>

\* approve_registration / reject_registration: registration.status = status
SetStatus(regs, reg_id, status) ==
    {IF r.id = reg_id THEN [r EXCEPT !.status = status] ELSE r : r \in regs}

\* RegistrationDetails with the two names in each other's place
RegistrationDetails_Swapped(reg_id) ==
    LET r == CHOOSE x \in RegById(reg_id) : TRUE IN
    [team_name |-> (CHOOSE g \in TournamentById(r.tournament_id) : TRUE).name,
     tournament_name |-> (CHOOSE t \in TeamById(r.team_id) : TRUE).name]

\* The names the audit entry of an approval or rejection snapshots
RegistrationDetails(reg_id) ==
    LET r == CHOOSE x \in RegById(reg_id) : TRUE IN
    [team_name |-> (CHOOSE t \in TeamById(r.team_id) : TRUE).name,
     tournament_name |-> (CHOOSE g \in TournamentById(r.tournament_id) : TRUE).name]

\* POST /approve_registration/<reg_id>
approve_registration(u, reg_id) ==
    LET msg == IF ~IsAdmin(u) THEN "Forbidden"
               ELSE IF RegById(reg_id) = {} THEN "NotFound404"
               ELSE "Approved" IN
    /\ IF msg = "Approved"
         THEN /\ registrations' = SetStatus(registrations, reg_id, "approved")
              /\ audit' = Append(audit,
                     AuditEntry(u, "approve_registration", "registration", reg_id,
                                RegistrationDetails(reg_id)))
         ELSE UNCHANGED <<registrations, audit>>
    /\ out' = Out("approve_registration", msg)
    /\ UNCHANGED <<now, inflight, tournaments, teams, players, autoinc>>

\* POST /reject_registration/<reg_id>
reject_registration(u, reg_id) ==
    LET msg == IF ~IsAdmin(u) THEN "Forbidden"
               ELSE IF RegById(reg_id) = {} THEN "NotFound404"
               ELSE "Rejected" IN
    /\ IF msg = "Rejected"
         THEN /\ registrations' = SetStatus(registrations, reg_id, "rejected")
              /\ audit' = Append(audit,
                     AuditEntry(u, "reject_registration", "registration", reg_id,
                                RegistrationDetails(reg_id)))
         ELSE UNCHANGED <<registrations, audit>>
    /\ out' = Out("reject_registration", msg)
    /\ UNCHANGED <<now, inflight, tournaments, teams, players, autoinc>>

(* ------------------- rankings and home (views.py) --------------------- *)
\* AddAuditLog replacing the last entry when it has the same action and target
AddAuditLog_Replace(log, entry) ==
    IF log # <<>> /\ log[Len(log)].action = entry.action
                  /\ log[Len(log)].target_id = entry.target_id
      THEN Append(SubSeq(log, 1, Len(log) - 1), entry)
      ELSE Append(log, entry)

\* db.session.add(audit_log); db.session.commit(): one more row at the end
AddAuditLog(log, entry) == Append(log, entry)

\* POST /manage-rankings/<team_id>/edit (both form fields present and numeric)
edit_ranking(u, team_id, points, wins) ==
    LET msg == IF ~IsAdmin(u) THEN "Forbidden"
               ELSE IF TeamById(team_id) = {} THEN "NotFound404"
               ELSE "RankingUpdated" IN
    /\ IF msg = "RankingUpdated"
         THEN LET team == CHOOSE t \in TeamById(team_id) : TRUE IN
              /\ teams' = {IF t.id = team_id
                             THEN [t EXCEPT !.points = points, !.wins = wins]
                             ELSE t : t \in teams}
              /\ audit' = AddAuditLog(audit,
                     AuditEntry(u, "edit_ranking", "team", team_id,
                                [team_name |-> team.name,
                                 old_points |-> team.points, new_points |-> points,
                                 old_wins |-> team.wins, new_wins |-> wins]))
         ELSE UNCHANGED <<teams, audit>>
    /\ out' = Out("edit_ranking", msg)
    /\ UNCHANGED <<now, inflight, tournaments, players, registrations, autoinc>>

\* Team.query.join(TournamentRegistration).filter(status == 'approved')
HasApproved(t) ==
    \E r \in registrations : r.team_id = t.id /\ r.status = "approved"

\* ... .join(Tournament).filter(status == 'approved', Tournament.name.ilike(%category%))
ApprovedInNamed(t, category) ==
    \E r \in registrations : \E g \in tournaments :
        /\ r.team_id = t.id
        /\ r.status = "approved"
        /\ g.id = r.tournament_id
        /\ Like(g.name, category)

\* home: teams_query, the teams the page lists (one page holds them all)
DisplayedTeams(category) ==
    IF category # "VALORANT"
      THEN LET byGame == {t \in teams : HasApproved(t) /\ Like(t.game_name, category)} IN
           IF byGame = {} THEN {t \in teams : ApprovedInNamed(t, category)} ELSE byGame
      ELSE {t \in teams : HasApproved(t) /\ ILike(t.game_name, "VALORANT")}

\* RankedTeams ranking every team of the table
RankedTeams_All(category) == teams

\* home: ranked_teams, the teams whose rank column the page rewrites
RankedTeams(category) ==
    IF category # "VALORANT"
      THEN {t \in teams : ApprovedInNamed(t, category)}
      ELSE {t \in teams : HasApproved(t)}

\* (points, wins) of a before (points, wins) of b in ORDER BY points DESC, wins DESC
Before(a, b) == a.points > b.points \/ (a.points = b.points /\ a.wins > b.wins)

\* RankOrders numbering the rows from 0
RankOrders_FromZero(S) ==
    {f \in [{t.id : t \in S} -> 0..(Cardinality(S) - 1)] :
        /\ \A a, b \in S : a.id # b.id => f[a.id] # f[b.id]
        /\ \A a, b \in S : Before(a, b) => f[a.id] < f[b.id]}

\* enumerate(ranked_teams, 1) over the rows in ORDER BY points DESC, wins DESC:
\* every numbering 1..n of S the order allows.  Rows equal on points and wins
\* come in the order the database returns them, which the query leaves open.
RankOrders(S) ==
    {f \in [{t.id : t \in S} -> 1..Cardinality(S)] :
        /\ \A a, b \in S : a.id # b.id => f[a.id] # f[b.id]
        /\ \A a, b \in S : Before(a, b) => f[a.id] < f[b.id]}

\* home: upcoming_tournaments (one page holds them all)
UpcomingTournaments ==
    {g \in tournaments : g.date >= now /\ ~g.archived /\ ~g.hide}

\* GET /?category=...: the rank column of the ranked teams is rewritten and
\* committed, then the page is rendered.
home(category) ==
    LET ranked == RankedTeams(category) IN
    /\ \E f \in RankOrders(ranked) :
         teams' = {IF t \in ranked THEN [t EXCEPT !.rank = f[t.id]] ELSE t : t \in teams}
    /\ out' = Out("home", category)
    /\ UNCHANGED <<now, inflight, tournaments, players, registrations, audit, autoinc>>

(* -------------------- the sweep (archive_expired.py) ------------------ *)
\* ExpiredTournaments with the date test written "date <= now"
ExpiredTournaments_Inclusive == {g \in tournaments : g.date <= now /\ ~g.archived}

\* expired_tournaments: date < now and not archived
ExpiredTournaments == {g \in tournaments : g.date < now /\ ~g.archived}

\* The audit entries of one sweep, one per expired tournament, in the order
\* .all() returns the rows (by primary key)
RECURSIVE SweepEntries(_)
SweepEntries(S) ==
    IF S = {} THEN <<>>
    ELSE LET g == CHOOSE x \in S : \A y \in S : x.id <= y.id IN
         <<AuditEntry(None, "auto_archive_tournament", "tournament", g.id,
                      [tournament_name |-> g.name, location |-> g.location,
                       date |-> g.date])>>
         \o SweepEntries(S \ {g})

\* SweepTournaments that hides the expired tournaments without archiving them
SweepTournaments_HideOnly(ts, expired) ==
    {IF g \in expired THEN [g EXCEPT !.hide = TRUE] ELSE g : g \in ts}

\* The tournament rows after the sweep: archived and hidden when expired
SweepTournaments(ts, expired) ==
    {IF g \in expired THEN [g EXCEPT !.archived = TRUE, !.hide = TRUE] ELSE g : g \in ts}

\* The scheduled job, run to its commit
archive_expired_tournaments ==
    LET expired == ExpiredTournaments IN
    /\ tournaments' = SweepTournaments(tournaments, expired)
    /\ registrations' = ArchiveRegistrations(registrations, {g.id : g \in expired})
    /\ audit' = audit \o SweepEntries(expired)
    /\ out' = Out("archive_expired_tournaments",
                  IF expired = {} THEN "NoneExpired" ELSE "AutoArchived")
    /\ UNCHANGED <<now, inflight, teams, players, autoinc>>

\* The first k rows (by primary key) of the rows the sweep iterates over
RECURSIVE FirstExpired(_, _)
FirstExpired(S, k) ==
    IF k = 0 \/ S = {} THEN {}
    ELSE LET g == CHOOSE x \in S : \A y \in S : x.id <= y.id IN
         {g} \cup FirstExpired(S \ {g}, k - 1)

\* The tables as one value: what a transaction starts from and what it holds
Tables(ts, regs, log) == [tournaments |-> ts, registrations |-> regs, audit |-> log]

\* The session of the sweep when its loop has gone through k expired
\* tournaments: their flags set, their approved registrations archived, their
\* audit entries added, nothing committed yet.
SweepSession(k) ==
    LET done == FirstExpired(ExpiredTournaments, k) IN
    Tables(SweepTournaments(tournaments, done),
           ArchiveRegistrations(registrations, {g.id : g \in done}),
           audit \o SweepEntries(done))

\* Rollback keeping what the session had written so far
Rollback_KeepSession(committed, session) == session

\* db.session.rollback(): the tables are what was last committed
Rollback(committed, session) == committed

\* The scheduled job when an exception is raised after k tournaments of the
\* loop (k = 0: in the query; k = all of them: in the commit): caught, printed,
\* rolled back.
archive_expired_tournaments_raise(k) ==
    LET after == Rollback(Tables(tournaments, registrations, audit), SweepSession(k)) IN
    /\ k <= Cardinality(ExpiredTournaments)
    /\ tournaments' = after.tournaments
    /\ registrations' = after.registrations
    /\ audit' = after.audit
    /\ out' = Out("archive_expired_tournaments", "Error")
    /\ UNCHANGED <<now, inflight, teams, players, autoinc>>

\* expired_tournaments as the sweep finds them in the tournament rows ts
ExpiredIn(ts) == {g \in ts : g.date < now /\ ~g.archived}

\* The tables after a committed sweep run on the tables d
AfterSweep(d) ==
    LET expired == ExpiredIn(d.tournaments) IN
    Tables(SweepTournaments(d.tournaments, expired),
           ArchiveRegistrations(d.registrations, {g.id : g \in expired}),
           d.audit \o SweepEntries(expired))

\* The tables after an admin's tournament_archive of tournament_id run on d
AfterArchive(d, u, tournament_id) ==
    LET tournament == CHOOSE g \in d.tournaments : g.id = tournament_id IN
    Tables(ArchiveTournament(d.tournaments, tournament_id),
           ArchiveRegistrations(d.registrations, {tournament_id}),
           Append(d.audit,
                  AuditEntry(u, "archive_tournament", "tournament", tournament_id,
                             [tournament_name |-> tournament.name,
                              location |-> tournament.location])))

(* ------------------------------- Next --------------------------------- *)
\* One request, or one run of the job, at a time.  The venues of the forms are
\* drawn from L, the team names from N, the teams' games from G and the
\* tournaments' games from TG; the audited requests are issued while the audit
\* table holds fewer than A rows.
Requests(L, N, G, TG, A) ==
    \/ Tick
    \/ \E u \in Captains, l \in L : tournament_register(u, l)
    \/ \E u \in Captains, l \in L, t \in TeamIds : tournament_join(u, l, t)
    \/ \E u \in Captains, n \in N, g \in G, l \in L \cup {None} :
          team_create(u, n, g, l, TRUE, 1)
    \/ \E u \in Admins, n \in TournamentNames, g \in TG, l \in L, d \in Dates :
          tournament_create(u, n, g, l, d)
    \/ Len(audit) < A /\ \E u \in Admins, i \in TournamentIds : tournament_archive(u, i)
    \/ Len(audit) < A /\ \E u \in Admins, r \in RegIds : approve_registration(u, r)
    \/ Len(audit) < A /\ \E u \in Admins, r \in RegIds : reject_registration(u, r)
    \/ Len(audit) + Cardinality(ExpiredTournaments) <= A /\ archive_expired_tournaments

\* Two venues, one team per captain.
Next == Requests(Locations, {"Alpha"}, Games, Games, MaxAudit)
Spec == Init /\ [][Next]_vars

\* One venue, two teams of the same captain and game.
NextTeams == Requests({"point-a"}, TeamNames, {"VALORANT"}, Games, MaxAudit)
SpecTeams == Init /\ [][NextTeams]_vars

\* One venue, one team, one game, and room for one more audited request.
NextArchive == Requests({"point-a"}, {"Alpha"}, {"VALORANT"}, {"VALORANT"}, MaxAudit + 1)
SpecArchive == Init /\ [][NextArchive]_vars

\* The edits and the deletion of teams and tournaments, beside the requests.
Edits(L, N, G, TG) ==
    \/ \E u \in Captains, t \in TeamIds, n \in N, g \in G : team_edit(u, t, n, g)
    \/ \E u \in Captains, t \in TeamIds : team_delete(u, t)
    \/ \E u \in Admins, i \in TournamentIds, n \in TournamentNames, g \in TG,
          l \in L, d \in Dates : tournament_edit(u, i, n, g, l, d)

\* Every operation: one venue, one team name, teams of both games.
NextAll ==
    \/ Requests({"point-a"}, {"Alpha"}, Games, {"VALORANT"}, MaxAudit)
    \/ Edits({"point-a"}, {"Alpha"}, Games, {"VALORANT"})
SpecAll == Init /\ [][NextAll]_vars

\* The sweep and its failures: one venue, one team, one game.
NextSweep ==
    \/ Requests({"point-a"}, {"Alpha"}, {"VALORANT"}, {"VALORANT"}, MaxAudit)
    \/ \E k \in 0..MaxTournaments : archive_expired_tournaments_raise(k)
SpecSweep == Init /\ [][NextSweep]_vars

\* The rankings: one venue, two teams of one game; the admin approves,
\* rejects, edits points and wins, and the home page is viewed under every
\* category.  The clock stands still.
NextRank ==
    \/ \E u \in Captains, n \in TeamNames :
          team_create(u, n, "VALORANT", "point-a", TRUE, 1)
    \/ \E u \in Admins, n \in TournamentNames :
          tournament_create(u, n, "VALORANT", "point-a", 0)
    \/ Len(audit) < MaxAudit + 1 /\ \E u \in Admins, r \in RegIds : approve_registration(u, r)
    \/ Len(audit) < MaxAudit + 1 /\ \E u \in Admins, r \in RegIds : reject_registration(u, r)
    \/ Len(audit) < MaxAudit + 1 /\ \E u \in Admins, t \in TeamIds, p \in Points, w \in Points :
          edit_ranking(u, t, p, w)
    \/ \E c \in Categories : home(c)
SpecRank == Init /\ [][NextRank]_vars

\* The scope of the rankings: teams and tournaments of both games, two
\* tournament names, the home page viewed under every category.
NextScope ==
    \/ \E u \in Captains, n \in TeamNames, g \in Games :
          team_create(u, n, g, "point-a", TRUE, 1)
    \/ \E u \in Admins, n \in {"Cup", "CS2 Open"}, g \in Games :
          tournament_create(u, n, g, "point-a", 0)
    \/ \E u \in Captains, t \in TeamIds : tournament_join(u, "point-a", t)
    \/ Len(audit) < MaxAudit /\ \E u \in Admins, r \in RegIds : approve_registration(u, r)
    \/ Len(audit) < MaxAudit /\ \E u \in Admins, r \in RegIds : reject_registration(u, r)
    \/ \E c \in Categories : home(c)
SpecScope == Init /\ [][NextScope]_vars

\* The audit trail under every operation: one venue, one game, the teams and
\* the tournaments renamed, the teams deleted, the sweep run and failed.
NextAudit ==
    \/ Tick
    \/ \E u \in Captains : team_create(u, "Alpha", "VALORANT", "point-a", TRUE, 1)
    \/ \E u \in Admins : tournament_create(u, "Cup", "VALORANT", "point-a", 0)
    \/ \E u \in Captains, t \in TeamIds, n \in TeamNames : team_edit(u, t, n, "VALORANT")
    \/ \E u \in Captains, t \in TeamIds : team_delete(u, t)
    \/ \E u \in Admins, i \in TournamentIds, n \in {"Cup", "CS2 Open"} :
          tournament_edit(u, i, n, "VALORANT", "point-a", 0)
    \/ Len(audit) < MaxAudit /\ \E u \in Admins, i \in TournamentIds : tournament_archive(u, i)
    \/ Len(audit) < MaxAudit /\ \E u \in Admins, r \in RegIds : approve_registration(u, r)
    \/ Len(audit) < MaxAudit /\ \E u \in Admins, r \in RegIds : reject_registration(u, r)
    \/ Len(audit) < MaxAudit /\ \E u \in Admins, t \in TeamIds :
          edit_ranking(u, t, MaxPoints, MaxPoints)
    \/ Len(audit) + Cardinality(ExpiredTournaments) <= MaxAudit /\ archive_expired_tournaments
    \/ archive_expired_tournaments_raise(1)
SpecAudit == Init /\ [][NextAudit]_vars

\* The admin pages requested by every user, admin or not: one venue, one
\* team, one game.
NextForbidden ==
    \/ Tick
    \/ \E u \in Captains : team_create(u, "Alpha", "VALORANT", "point-a", TRUE, 1)
    \/ \E u \in Users, d \in Dates : tournament_create(u, "Cup", "VALORANT", "point-a", d)
    \/ \E u \in Users, i \in TournamentIds, d \in Dates :
          tournament_edit(u, i, "Cup", "VALORANT", "point-a", d)
    \/ Len(audit) < MaxAudit /\ \E u \in Users, i \in TournamentIds : tournament_archive(u, i)
    \/ Len(audit) < MaxAudit /\ \E u \in Users, r \in RegIds : approve_registration(u, r)
    \/ Len(audit) < MaxAudit /\ \E u \in Users, r \in RegIds : reject_registration(u, r)
    \/ Len(audit) < MaxAudit /\ \E u \in Users, t \in TeamIds, p \in Points :
          edit_ranking(u, t, p, p)
SpecForbidden == Init /\ [][NextForbidden]_vars

\* Registration requests served at the same time: the checks and the insert
\* of each are separate steps.  One team, one game, two venues.
NextRace ==
    \/ \E u \in Captains : team_create(u, "Alpha", "VALORANT", None, TRUE, 1)
    \/ \E u \in Admins, l \in Locations : tournament_create(u, "Cup", "VALORANT", l, 0)
    \/ \E p \in RequestIds, u \in Captains, l \in Locations : register_check(p, u, l)
    \/ \E p \in RequestIds : register_insert(p)
    \/ Len(audit) < MaxAudit /\ \E u \in Admins, r \in RegIds : approve_registration(u, r)
SpecRace == Init /\ [][NextRace]_vars

\* The teams of two captains: names that differ in case only, renames and
\* deletions by the owner and by the other captain.  One venue, one game.
NextOwners ==
    \/ \E u \in {"u1", "u2"}, n \in {"Alpha", "ALPHA", "Beta"}, l \in {"point-a", None} :
          team_create(u, n, "VALORANT", l, TRUE, 1)
    \/ \E u \in Admins : tournament_create(u, "Cup", "VALORANT", "point-a", 0)
    \/ \E u \in {"u1", "u2"}, t \in TeamIds, n \in {"Alpha", "ALPHA", "Beta"} :
          team_edit(u, t, n, "VALORANT")
    \/ \E u \in {"u1", "u2"}, t \in TeamIds : team_delete(u, t)
SpecOwners == Init /\ [][NextOwners]_vars

\* The schedule: the job is run again and again, it may raise, and its runs
\* that reach the commit are fair; the clock advances.  One venue, one team.
NextSchedule ==
    \/ Tick
    \/ \E u \in Captains : team_create(u, "Alpha", "VALORANT", "point-a", TRUE, 1)
    \/ \E u \in Admins, d \in Dates : tournament_create(u, "Cup", "VALORANT", "point-a", d)
    \/ Len(audit) < MaxAudit /\ \E u \in Admins, r \in RegIds : approve_registration(u, r)
    \/ Len(audit) < MaxAudit /\ \E u \in Admins, i \in TournamentIds : tournament_archive(u, i)
    \/ archive_expired_tournaments
    \/ \E k \in 0..MaxTournaments : archive_expired_tournaments_raise(k)
SpecSchedule ==
    /\ Init
    /\ [][NextSchedule]_vars
    /\ WF_vars(Tick)
    /\ WF_vars(archive_expired_tournaments)

(* ------------------------------ claims -------------------------------- *)
\* The registering team of tournament_register and the tournament a venue
\* stands for in the spec: the latest-dated open tournament of the venue.
OpenAt(location) == LatestByDate({g \in tournaments : g.location = location /\ IsOpen(g)})
ApprovedOpen(team_id) ==
    {r \in registrations :
        /\ r.team_id = team_id
        /\ r.status = "approved"
        /\ \E g \in tournaments : g.id = r.tournament_id /\ IsOpen(g)}

\* C1: in every reachable state each team holds at most one 'approved'
\* registration among the open tournaments.
C1_AtMostOneApprovedOpen ==
    \A t \in teams : Cardinality(ApprovedOpen(t.id)) <= 1

\* C2 as stated: a team approved on an open tournament G1 that registers (or
\* joins) for another open tournament G2 gets AlreadyApprovedElsewhere and no
\* registration row is created.
C2_ApprovedElsewhereAlways ==
    [][\A u \in Captains, l \in Locations :
        /\ \A t \in FirstTeamOf(u), g2 \in RegisterTournament(l) :
             (/\ tournament_register(u, l)
              /\ IsOpen(g2)
              /\ \E r \in ApprovedOpen(t.id) : r.tournament_id # g2.id)
             => (out'.msg = "AlreadyApprovedElsewhere" /\ registrations' = registrations)
        /\ \A t \in teams, g2 \in JoinTournament(l) :
             (/\ tournament_join(u, l, t.id)
              /\ t.captain_id = u
              /\ IsOpen(g2)
              /\ \E r \in ApprovedOpen(t.id) : r.tournament_id # g2.id)
             => (out'.msg = "AlreadyApprovedElsewhere" /\ registrations' = registrations)
      ]_vars

\* C2 amended: such a registration never creates a row; it fails with
\* AlreadyApprovedElsewhere when the team's game equals G2's game, and with
\* GameMismatch (the earlier check) when it does not.
C2_ApprovedElsewhereWhenGameMatches ==
    [][\A u \in Captains, l \in Locations :
        /\ \A t \in FirstTeamOf(u), g2 \in RegisterTournament(l) :
             (/\ tournament_register(u, l)
              /\ IsOpen(g2)
              /\ \E r \in ApprovedOpen(t.id) : r.tournament_id # g2.id)
             => /\ registrations' = registrations
                /\ out'.msg = IF t.game_name = g2.game_name
                                THEN "AlreadyApprovedElsewhere" ELSE "GameMismatch"
        /\ \A t \in teams, g2 \in JoinTournament(l) :
             (/\ tournament_join(u, l, t.id)
              /\ t.captain_id = u
              /\ IsOpen(g2)
              /\ \E r \in ApprovedOpen(t.id) : r.tournament_id # g2.id)
             => /\ registrations' = registrations
                /\ out'.msg = IF t.game_name = g2.game_name
                                THEN "AlreadyApprovedElsewhere" ELSE "GameMismatch"
      ]_vars

\* C2 witness: a registration has just ended AlreadyApprovedElsewhere while the
\* team is approved on open G1 and the only venue with tournaments resolves to
\* another open tournament G2 of the team's game.
C2_Witness ==
    /\ out = Out("tournament_register", "AlreadyApprovedElsewhere")
    /\ \E t \in FirstTeamOf("u1"), l \in Locations :
         /\ \A g \in tournaments : g.location = l
         /\ \E g2 \in RegisterTournament(l) :
              /\ IsOpen(g2)
              /\ g2.game_name = t.game_name
              /\ ExistingReg(g2.id, t.id) = {}
              /\ \E r \in ApprovedOpen(t.id) : r.tournament_id # g2.id

\* C3: whenever the team's game differs from the game of the tournament the
\* venue resolves to, tournament_register and tournament_join end GameMismatch
\* and create no row, whatever the registrations are.
C3_GameMismatch ==
    [][\A u \in Captains, l \in Locations :
        /\ \A t \in FirstTeamOf(u), g \in RegisterTournament(l) :
             (tournament_register(u, l) /\ t.game_name # g.game_name)
             => (out'.msg = "GameMismatch" /\ registrations' = registrations)
        /\ \A t \in teams, g \in JoinTournament(l) :
             (tournament_join(u, l, t.id) /\ t.captain_id = u /\ t.game_name # g.game_name)
             => (out'.msg = "GameMismatch" /\ registrations' = registrations)
      ]_vars

\* C3 witness: a registration has just ended GameMismatch for a team that is
\* approved on an open tournament.
C3_Witness ==
    /\ out = Out("tournament_register", "GameMismatch")
    /\ \E t \in FirstTeamOf("u1") : ApprovedOpen(t.id) # {}

C5_RegistersPending ==
    [][\A u \in Captains, l \in Locations :
        \A t \in FirstTeamOf(u), g \in OpenAt(l) :
          (/\ tournament_register(u, l)
           /\ t.game_name = g.game_name
           /\ ApprovedOpen(t.id) = {}
           /\ ExistingReg(g.id, t.id) = {})
          => /\ out'.msg = "Registered"
             /\ registrations \subseteq registrations'
             /\ Cardinality(registrations') = Cardinality(registrations) + 1
             /\ \A r \in registrations' \ registrations :
                  /\ r.team_id = t.id
                  /\ r.tournament_id = g.id
                  /\ r.status = "pending"
                  /\ \A x \in registrations : x.id # r.id
             /\ teams' = teams
             /\ tournaments' = tournaments
      ]_vars

\* C5 witness: a registration has just succeeded and the team has a pending
\* row on an open tournament while another row of the team is kept as it was.
C5_Witness ==
    /\ out = Out("tournament_register", "Registered")
    /\ \E t \in FirstTeamOf("u1"), r1, r2 \in registrations :
         /\ r1.team_id = t.id /\ r2.team_id = t.id
         /\ r1.id < r2.id
         /\ r1.status = "rejected"
         /\ r2.status = "pending"
         /\ \E g \in tournaments : g.id = r2.tournament_id /\ IsOpen(g)

\* C6: when the venue has no open tournament (not archived, not hidden, date
\* in the future) the registration ends NotFound and creates no row.
C6_NotFoundWithoutOpenTournament ==
    [][\A u \in Captains, l \in Locations :
        (tournament_register(u, l) /\ FirstTeamOf(u) # {} /\ OpenAt(l) = {})
        => (out'.msg = "NotFound" /\ registrations' = registrations)
      ]_vars

\* C8: the manual archive of G sets G.archived, moves G's 'approved'
\* registrations to 'archived' and leaves every other registration (pending or
\* rejected under G, any status under another tournament) as it was.
C8_ArchiveFrame ==
    [][\A u \in Admins, i \in TournamentIds :
        (tournament_archive(u, i) /\ TournamentById(i) # {})
        => /\ \A g \in TournamentById(i)' : g.archived
           /\ {r.id : r \in registrations'} = {r.id : r \in registrations}
           /\ Cardinality(registrations') = Cardinality(registrations)
           /\ \A r \in registrations : \E x \in registrations' :
                /\ x.id = r.id
                /\ x.team_id = r.team_id
                /\ x.tournament_id = r.tournament_id
                /\ x.status = IF r.tournament_id = i /\ r.status = "approved"
                                THEN "archived" ELSE r.status
      ]_vars

\* C8 witness: a manual archive has just run on a tournament that holds an
\* 'archived' registration of one team and a still 'pending' one of another.
C8_Witness ==
    /\ out = Out("tournament_archive", "TournamentArchived")
    /\ \E g \in tournaments, r1, r2 \in registrations :
         /\ g.archived /\ ~g.hide
         /\ r1.tournament_id = g.id /\ r2.tournament_id = g.id
         /\ r1.status = "archived"
         /\ r2.status = "pending"

\* C9: after ArchiveTournament(G), G is archived and every registration of G
\* that was approved is 'archived'; a further ArchiveTournament(G) from such a
\* state changes no tournament and no registration.
C9_ArchiveIdempotent ==
    [][\A u \in Admins, i \in TournamentIds :
        (tournament_archive(u, i) /\ TournamentById(i) # {})
        => /\ \A g \in TournamentById(i)' : g.archived
           /\ \A r \in registrations : (r.tournament_id = i /\ r.status = "approved")
                => \E x \in registrations' : x.id = r.id /\ x.status = "archived"
           /\ \A x \in registrations' : x.tournament_id = i => x.status # "approved"
           /\ ((\A g \in TournamentById(i) : g.archived)
               /\ (\A r \in registrations : r.tournament_id = i => r.status # "approved"))
              => (tournaments' = tournaments /\ registrations' = registrations)
      ]_vars

\* C9 witness: the last two audited requests are manual archives of the same
\* tournament, which holds a registration approved before the first of them.
C9_Witness ==
    /\ out = Out("tournament_archive", "TournamentArchived")
    /\ Len(audit) = 3
    /\ audit[1].action = "approve_registration"
    /\ audit[2].action = "archive_tournament"
    /\ audit[3].action = "archive_tournament"
    /\ audit[2].target_id = audit[3].target_id
    /\ \E r \in registrations :
         /\ r.id = audit[1].target_id
         /\ r.tournament_id = audit[3].target_id
         /\ r.status = "archived"

\* C10: a sweep archives and hides every tournament with date < now that was
\* not archived and moves its 'approved' registrations to 'archived'; a
\* tournament dated now or later keeps its flags and its registrations.
C10_Sweep ==
    [][archive_expired_tournaments
        => \A g \in tournaments : \E h \in tournaments' :
             /\ h.id = g.id
             /\ (g.date < now /\ ~g.archived)
                  => /\ h.archived /\ h.hide
                     /\ \A r \in registrations :
                          (r.tournament_id = g.id /\ r.status = "approved")
                          => [r EXCEPT !.status = "archived"] \in registrations'
             /\ g.date >= now
                  => /\ h = g
                     /\ \A r \in registrations : r.tournament_id = g.id => r \in registrations'
                     /\ \A x \in registrations' : x.tournament_id = g.id => x \in registrations
      ]_vars

\* C10 witness: a sweep has just archived and hidden a past tournament with an
\* approved registration, beside a tournament dated now or later, not archived
\* and not hidden, whose registration is still pending.
C10_Witness ==
    /\ out = Out("archive_expired_tournaments", "AutoArchived")
    /\ \E g1, g2 \in tournaments, r1, r2 \in registrations :
         /\ g1.date < now /\ g1.archived /\ g1.hide
         /\ r1.tournament_id = g1.id /\ r1.status = "archived"
         /\ g2.date >= now /\ ~g2.archived /\ ~g2.hide
         /\ r2.tournament_id = g2.id /\ r2.status = "pending"

\* C7: after any sequence of requests, one at a time, there is at most one
\* registration row per (team, tournament) pair.
C7_OneRowPerPair ==
    \A r1, r2 \in registrations :
        (r1.team_id = r2.team_id /\ r1.tournament_id = r2.tournament_id) => r1 = r2

\* C7 witness: a join has just been refused as a duplicate while the team holds
\* two rows, one for each of two tournaments.
C7_Witness ==
    /\ out = Out("tournament_join", "DuplicateRegistration")
    /\ \E r1, r2 \in registrations :
         /\ r1.team_id = r2.team_id
         /\ r1.tournament_id # r2.tournament_id

\* C11: a sweep that raises, wherever in its loop, leaves the committed
\* tables as they were: no tournament flag, no registration status and no audit
\* entry of that sweep persists.
C11_SweepRollback ==
    [][\A k \in 0..MaxTournaments :
        archive_expired_tournaments_raise(k)
        => /\ tournaments' = tournaments
           /\ registrations' = registrations
           /\ audit' = audit
           /\ teams' = teams
      ]_vars

\* C11 witness: a sweep has just failed while two expired tournaments, one of
\* them with an approved registration, are still neither archived nor hidden.
C11_Witness ==
    /\ out = Out("archive_expired_tournaments", "Error")
    /\ Cardinality(ExpiredTournaments) = 2
    /\ \A g \in ExpiredTournaments : ~g.hide
    /\ \E r \in registrations :
         /\ r.status = "approved"
         /\ \E g \in ExpiredTournaments : g.id = r.tournament_id

\* C14: after the ranking computation of a home view over a scoped set of n
\* teams, the ranks stored on those teams are exactly 1..n, each used once, and
\* a team with a smaller rank has (points, wins) lexicographically greater than
\* or equal to those of a team with a larger rank.
C14_DenseSortedRanks ==
    [][\A c \in Categories :
        home(c)
        => LET ids == {t.id : t \in RankedTeams(c)}
               after == {t \in teams' : t.id \in ids} IN
           /\ Cardinality(after) = Cardinality(ids)
           /\ {t.rank : t \in after} = 1..Cardinality(ids)
           /\ \A a, b \in after :
                a.rank < b.rank
                => \/ a.points > b.points
                   \/ (a.points = b.points /\ a.wins >= b.wins)
      ]_vars

\* C14 witness: a home view has just ranked two teams equal on points, the one
\* with more wins first.
C14_Witness ==
    /\ out.op = "home"
    /\ \E a, b \in teams :
         /\ HasApproved(a) /\ HasApproved(b)
         /\ a.points = b.points /\ a.wins > b.wins
         /\ a.rank = 1 /\ b.rank = 2

\* C15: a home view that follows a home view of the same category, with no
\* request in between, stores the same rank on every team, also when teams of
\* the scope are equal on points and wins.
C15_SameRanksAgain ==
    [][\A c \in Categories : (out = Out("home", c) /\ home(c)) => teams' = teams]_vars

\* C16: under a category filter the home view ranks exactly the teams with an
\* approved registration whose tournament name or whose game matches the
\* filter: after the view those teams hold the ranks 1..n.
C16_RanksNameOrGameMatches ==
    [][\A c \in Categories :
        (c # "VALORANT" /\ home(c))
        => LET ids == {t.id : t \in {x \in teams :
                          \E r \in registrations : \E g \in tournaments :
                            /\ r.team_id = x.id /\ r.status = "approved"
                            /\ g.id = r.tournament_id
                            /\ (Like(g.name, c) \/ Like(x.game_name, c))}}
               after == {t \in teams' : t.id \in ids} IN
           {t.rank : t \in after} = 1..Cardinality(ids)
      ]_vars

\* C17: a home view rewrites the rank of no team outside the scoped set: a
\* team without an approved registration (under a filter: without an approved
\* registration on a tournament whose name matches) keeps its row, and every
\* team keeps its points, its wins and all its other columns.
C17_RankFrame ==
    [][\A c \in Categories :
        home(c)
        => /\ \A t \in teams :
                (~\E r \in registrations : \E g \in tournaments :
                     /\ r.team_id = t.id /\ r.status = "approved"
                     /\ g.id = r.tournament_id
                     /\ (c = "VALORANT" \/ Like(g.name, c)))
                => t \in teams'
           /\ \A t \in teams : \E x \in teams' : x = [t EXCEPT !.rank = x.rank]
           /\ Cardinality(teams') = Cardinality(teams)
      ]_vars

\* C17 witness: a home view has just run while a team whose only registration
\* is rejected still holds the rank 2 of an earlier view, beside the rank 1 of
\* the one team that is approved.
C17_Witness ==
    /\ out.op = "home"
    /\ \E a, b \in teams :
         /\ HasApproved(a) /\ a.rank = 1
         /\ ~HasApproved(b) /\ b.rank = 2
         /\ \E r \in registrations : r.team_id = b.id /\ r.status = "rejected"

\* What an approval or a rejection of registration reg_id by admin u does: the
\* status is set, and one entry is appended with the action, the registration
\* id, the admin, and the names the team and the tournament have at that moment.
C12_Effect(u, reg_id, status, action) ==
    /\ \E x \in registrations' : x.id = reg_id /\ x.status = status
    /\ \A r \in registrations : r.id # reg_id => r \in registrations'
    /\ Len(audit') = Len(audit) + 1
    /\ SubSeq(audit', 1, Len(audit)) = audit
    /\ LET e == audit'[Len(audit')] IN
       /\ e.action = action
       /\ e.target_id = reg_id
       /\ e.user_id = u
       /\ \E r \in registrations, t \in teams, g \in tournaments :
            /\ r.id = reg_id /\ t.id = r.team_id /\ g.id = r.tournament_id
            /\ e.details.team_name = t.name
            /\ e.details.tournament_name = g.name

\* C12: every approval (rejection) by an admin sets the status 'approved'
\* ('rejected') and appends exactly one audit entry 'approve_registration'
\* ('reject_registration') with the registration id, the admin, and the team
\* and tournament names of that moment.
C12_ApproveRejectAudited ==
    [][\A u \in Admins, r \in RegIds :
        /\ (approve_registration(u, r) /\ RegById(r) # {})
             => C12_Effect(u, r, "approved", "approve_registration")
        /\ (reject_registration(u, r) /\ RegById(r) # {})
             => C12_Effect(u, r, "rejected", "reject_registration")
      ]_vars

\* C12 witness: the trail holds an approval and then a rejection of the same
\* registration, whose team and tournament have both been renamed since the
\* approval; the registration is rejected.
C12_Witness ==
    /\ Len(audit) = 2
    /\ audit[1].action = "approve_registration"
    /\ audit[2].action = "reject_registration"
    /\ audit[1].target_id = audit[2].target_id
    /\ \E r \in registrations, t \in teams, g \in tournaments :
         /\ r.id = audit[1].target_id /\ r.status = "rejected"
         /\ t.id = r.team_id /\ g.id = r.tournament_id
         /\ audit[1].details.team_name # t.name
         /\ audit[1].details.tournament_name # g.name
         /\ audit[2].details.team_name = t.name

\* C13: the audit trail only grows at its end: across every step the entries
\* there were are a prefix of the entries there are, each one unchanged.
C13_AppendOnly ==
    [][/\ Len(audit') >= Len(audit)
       /\ SubSeq(audit', 1, Len(audit)) = audit]_vars

\* C13 witness: a team has just been deleted while the trail still holds the
\* approval of its registration and the edit of its ranking, under its name.
C13_Witness ==
    /\ out = Out("team_delete", "TeamDeleted")
    /\ Len(audit) = 2
    /\ audit[1].action = "approve_registration"
    /\ audit[2].action = "edit_ranking"
    /\ TeamById(audit[2].target_id) = {}
    /\ RegById(audit[1].target_id) = {}
    /\ audit[1].details.team_name = audit[2].details.team_name

\* C18: once a tournament is archived it stays archived, no step through any
\* registration path (register at the venue, join with a team, create a team
\* and register) adds a registration row for it, and the 'upcoming' listing of
\* the home page never holds it.
C18_ArchivedClosed ==
    [][/\ \A g \in tournaments :
            g.archived
            => /\ \E h \in tournaments' : h.id = g.id /\ h.archived
               /\ \A r \in registrations' :
                    r.tournament_id = g.id => \E x \in registrations : x.id = r.id
       /\ \A g \in UpcomingTournaments : ~g.archived
       /\ \A g \in UpcomingTournaments' : ~g.archived
      ]_vars

\* C18 witness: a team has just been created for a venue whose only
\* tournament, dated in the future and not hidden, is archived: the team exists
\* and holds no registration.
C18_Witness ==
    /\ out = Out("team_create", "TeamCreatedRegistrationFailed")
    /\ \E g \in tournaments : g.archived /\ ~g.hide /\ g.date >= now
    /\ \A g \in tournaments : g.archived
    /\ \E t \in teams : \A r \in registrations : r.team_id # t.id

C20_SweepArchiveCommute ==
    \A u \in Admins, g \in ExpiredTournaments :
        LET d == Tables(tournaments, registrations, audit)
            sweepFirst == AfterArchive(AfterSweep(d), u, g.id)
            archiveFirst == AfterSweep(AfterArchive(d, u, g.id)) IN
        /\ {h \in sweepFirst.tournaments : h.id = g.id}
             = {h \in archiveFirst.tournaments : h.id = g.id}
        /\ {r \in sweepFirst.registrations : r.tournament_id = g.id}
             = {r \in archiveFirst.registrations : r.tournament_id = g.id}

\* C21: with the checks and the insert of a registration as separate steps,
\* the insert of a request that passed its checks adds its row whatever rows
\* were committed in between (no unique key refuses it), so two requests for
\* the same team and venue can both pass the checks and both insert.
C21_InsertAfterChecks ==
    [][\A p \in RequestIds :
        register_insert(p)
        => \E q \in inflight :
             /\ q.req = p
             /\ Cardinality(registrations') = Cardinality(registrations) + 1
             /\ registrations \subseteq registrations'
             /\ \A r \in registrations' \ registrations :
                  /\ r.team_id = q.team_id
                  /\ r.tournament_id = q.tournament_id
                  /\ r.status = "pending"
      ]_vars

\* C21 witness: two requests have inserted and the table holds two rows for
\* the same (team, tournament) pair.
C21_Witness ==
    /\ out = Out("tournament_register", "Registered")
    /\ inflight = {}
    /\ \E r1, r2 \in registrations :
         /\ r1.id # r2.id
         /\ r1.team_id = r2.team_id
         /\ r1.tournament_id = r2.tournament_id

\* C22: the checks of a registration run in the order existence, game,
\* approved on an open tournament, duplicate, and the request reports the
\* first that fails: a mismatching game wins over an existing row, and an
\* approved row on the same open tournament gives AlreadyApprovedElsewhere,
\* not DuplicateRegistration.
C22_FirstFailingCheck ==
    [][\A u \in Captains, l \in Locations :
        (tournament_register(u, l) /\ FirstTeamOf(u) # {})
        => LET t == CHOOSE x \in FirstTeamOf(u) : TRUE
               found == {g \in tournaments :
                           /\ g.location = l /\ ~g.archived /\ ~g.hide
                           /\ \A h \in tournaments :
                                (h.location = l /\ ~h.archived /\ ~h.hide)
                                => (h.date < g.date \/ (h.date = g.date /\ h.id >= g.id))} IN
           IF found = {} THEN out'.msg = "NotFound"
           ELSE \A g \in found :
                  out'.msg =
                    IF t.game_name # g.game_name THEN "GameMismatch"
                    ELSE IF ApprovedOpen(t.id) # {} THEN "AlreadyApprovedElsewhere"
                    ELSE IF \E r \in registrations :
                              r.team_id = t.id /\ r.tournament_id = g.id
                      THEN "DuplicateRegistration"
                    ELSE "Registered"
      ]_vars

\* C22 witness: a registration has just ended GameMismatch for a team that
\* already holds a row for the tournament the venue resolves to.
C22_Witness ==
    /\ out = Out("tournament_register", "GameMismatch")
    /\ \E t \in FirstTeamOf("u1"), l \in Locations : \E g \in RegisterTournament(l) :
         /\ t.game_name # g.game_name
         /\ ExistingReg(g.id, t.id) # {}

\* The lower-case spelling of the team names of the model
C23_Fold(s) == IF s \in {"Alpha", "ALPHA", "alpha"} THEN "alpha"
               ELSE IF s \in {"Beta", "BETA", "beta"} THEN "beta" ELSE s

\* C23: no two distinct teams have names equal ignoring case, and a
\* team_create or a rename by team_edit whose name collides, ignoring case,
\* with another team's name is rejected and changes no team.
C23_UniqueNames ==
    /\ [](\A a, b \in teams : a.id # b.id => C23_Fold(a.name) # C23_Fold(b.name))
    /\ [][\A u \in {"u1", "u2"}, n \in {"Alpha", "ALPHA", "Beta"} :
            /\ \A l \in {"point-a", None} :
                 (/\ team_create(u, n, "VALORANT", l, TRUE, 1)
                  /\ \E x \in teams : C23_Fold(x.name) = C23_Fold(n))
                 => /\ teams' = teams
                    /\ out'.msg \in {"TeamExistsOwn", "TeamNameTaken"}
            /\ \A t \in teams :
                 (/\ team_edit(u, t.id, n, "VALORANT")
                  /\ \E x \in teams : x.id # t.id /\ C23_Fold(x.name) = C23_Fold(n))
                 => /\ teams' = teams
                    /\ out'.msg \in {"TeamNameTaken", "Forbidden"}
       ]_vars

\* C23 witness: a rename has just been refused as taken while the two
\* captains hold one team each.
C23_Witness ==
    /\ out = Out("team_edit", "TeamNameTaken")
    /\ \E a, b \in teams : a.captain_id = "u1" /\ b.captain_id = "u2"

\* C24: every player and every registration refers to an existing team; a
\* team_delete by the captain removes the team with all its players and
\* registrations and nothing else; by another user it ends Forbidden and
\* removes nothing.
C24_CascadeDelete ==
    /\ [](/\ \A p \in players : \E t \in teams : t.id = p.team_id
          /\ \A r \in registrations : \E t \in teams : t.id = r.team_id)
    /\ [][\A u \in {"u1", "u2"}, t \in teams :
            team_delete(u, t.id)
            => IF t.captain_id = u
                 THEN /\ teams' = teams \ {t}
                      /\ players' = {p \in players : p.team_id # t.id}
                      /\ registrations' = {r \in registrations : r.team_id # t.id}
                 ELSE /\ out'.msg = "Forbidden"
                      /\ teams' = teams
                      /\ players' = players
                      /\ registrations' = registrations
       ]_vars

\* C24 witness: a team with a player and a registration has just been deleted
\* while the other captain's team keeps its player and its registration.
C24_Witness ==
    /\ out = Out("team_delete", "TeamDeleted")
    /\ autoinc.team = 3 /\ autoinc.registration = 3 /\ autoinc.player = 3
    /\ Cardinality(teams) = 1
    /\ Cardinality(players) = 1
    /\ Cardinality(registrations) = 1

\* C25: a sweep that raised does not stop the schedule, and with fair ticks
\* and sweeps that eventually reach their commit every tournament whose date
\* has passed and that is not archived is eventually archived and hidden.
C25_EventuallyArchivedHidden ==
    \A i \in TournamentIds :
        (\E g \in tournaments : g.id = i /\ g.date < now /\ ~g.archived)
        ~> (\E g \in tournaments : g.id = i /\ g.archived /\ g.hide)

\* C26: tournament_join and team_create with a venue add a registration only
\* for a tournament that is open (not archived, not hidden, dated now or
\* later) and whose game is the team's game.
C26_JoinCreateOnlyOpen ==
    [][(out'.op \in {"tournament_join", "team_create"} /\ registrations' # registrations)
         => \A r \in registrations' \ registrations :
               \E g \in tournaments : \E t \in teams' :
                   /\ g.id = r.tournament_id
                   /\ t.id = r.team_id
                   /\ IsOpen(g)
                   /\ g.game_name = t.game_name]_vars

C28_NoApprovedUnderArchived ==
    \A r \in registrations : \A g \in tournaments :
        (g.id = r.tournament_id /\ g.archived) => r.status # "approved"

\* C29: in every reachable state each registration links a team and a
\* tournament of the same game category.
C29_RegistrationGamesMatch ==
    \A r \in registrations : \A t \in teams : \A g \in tournaments :
        (t.id = r.team_id /\ g.id = r.tournament_id) => t.game_name = g.game_name

\* C30: in every reachable state a hidden tournament is archived, and no
\* operation, tournament_edit with a new future date included, takes a
\* tournament's archived flag back to false.
C30_HiddenArchivedMonotonic ==
    /\ [](\A g \in tournaments : g.hide => g.archived)
    /\ [][\A g \in tournaments :
            g.archived => \E h \in tournaments' : h.id = g.id /\ h.archived]_vars

\* C30 witness: a swept tournament has just been edited to a date that is not
\* past: it is still archived and hidden.
C30_Witness ==
    /\ out = Out("tournament_edit", "TournamentUpdated")
    /\ \E g \in tournaments : g.archived /\ g.hide /\ g.date >= now
=============================================================================
